---- MODULE Spec2Model ----
(***************************************************************************)
(* Model of jfrog_cleanup_script.py: the paginated AQL fetch, the custom   *)
(* cleanup-target mode, the build-folder grouping and classification, the  *)
(* writing of the file-spec manifests and the calls of "jf rt del".        *)
(*                                                                         *)
(* Strings are sequences of tokens.  "/" and "_" are the characters; every *)
(* other token stands for a run of characters without "/" and "_" that is  *)
(* never split ("a", "k", "f", "r", "s"), and "bx", "by" stand for        *)
(* the texts build_x_1_1 and build_y_2_2, which are the texts that group 2 *)
(* of the regex of get_build_folder matches.  Dates are the integers that  *)
(* datetime.strptime(..., DATE_FORMAT) orders.                             *)
(***************************************************************************)
EXTENDS Integers, Sequences, FiniteSets, TLC

----------------------------------------------------------------------------
(* Bounds of the explored inputs *)

MaxLen == 3        \* longest record list (JSON file or server listing)
MaxLimit == 2      \* largest aql_limit
MaxChunk == 2      \* largest delete_chunk_size

----------------------------------------------------------------------------
(* Strings *)

SEP == "/"
BuildTokens == {"bx", "by"}

Min(S) == CHOOSE x \in S : \A y \in S : x <= y

RECURSIVE Flatten(_)
Flatten(ss) == IF ss = <<>> THEN <<>> ELSE Head(ss) \o Flatten(Tail(ss))

\* str.startswith
StartsWith(s, p) == Len(p) <= Len(s) /\ SubSeq(s, 1, Len(p)) = p

\* str.endswith
EndsWith(s, p) == Len(p) <= Len(s) /\ SubSeq(s, Len(s) - Len(p) + 1, Len(s)) = p

\* re.search of a pattern made of literal characters: substring search
Contains(s, p) ==
    \E i \in 0..(Len(s) - Len(p)) : SubSeq(s, i + 1, i + Len(p)) = p

\* str.replace('/', '_')
ReplaceSep(s) == [i \in 1..Len(s) |-> IF s[i] = SEP THEN "_" ELSE s[i]]

\* posixpath.join of two components
Join2(a, b) ==
    IF StartsWith(b, <<SEP>>) THEN b
    ELSE IF a = <<>> \/ EndsWith(a, <<SEP>>) THEN a \o b
    ELSE a \o <<SEP>> \o b

\* os.path.join(a, b, c)
Join3(a, b, c) == Join2(Join2(a, b), c)

----------------------------------------------------------------------------
(* The explored inputs: paths, records, configurations *)

PA == <<"a">>                              \* a
PX == <<"a", "/", "bx">>                   \* a/build_x_1_1
PXK == <<"a", "/", "bx", "/", "k">>        \* a/build_x_1_1/k
PY == <<"a", "/", "by">>                   \* a/build_y_2_2
PZ == <<"bx", "/", "by">>                  \* build_x_1_1/build_y_2_2

ThresholdDate == 3     \* threshold_date; the dates of the records are 1, 3, 5

File(repo, path, name, created) ==
    [type |-> "file", repo |-> repo, path |-> path, name |-> name,
     created |-> created]

Malformed == [malformed |-> TRUE]          \* an entry that is not a dict

Entries ==
    { File(<<"r">>, PX, <<"f">>, d) : d \in {1, 3, 5} }
    \cup { File(<<"r">>, PXK, <<"f">>, 1),
           File(<<"r">>, PXK, <<"f">>, 1) @@ [modified |-> 5],
           File(<<"r">>, PY, <<"f">>, 1),
           File(<<"s">>, PZ, <<"f">>, 1),
           File(<<"r">>, PA, <<"f">>, 1),
           [File(<<"r">>, PA, <<"bx">>, 1) EXCEPT !.type = "folder"],
           Malformed }

\* isinstance(entry, dict)
IsDict(entry) == "malformed" \notin DOMAIN entry

ItemKey(entry) ==
    IF IsDict(entry) THEN <<entry.repo, entry.path, entry.name>> ELSE <<>>

\* The lists of at most n entries in which no two records are the same item
\* (an item of a repository is identified by repo, path and name).
RECURSIVE ListsUpTo(_)
ListsUpTo(n) ==
    IF n = 0 THEN {<<>>}
    ELSE LET shorter == ListsUpTo(n - 1)
         IN  shorter
             \cup { Append(l, e) : l \in {m \in shorter : Len(m) = n - 1},
                                   e \in Entries }

UniqueItems(l) ==
    \A i, j \in 1..Len(l) :
        (i < j /\ IsDict(l[i]) /\ IsDict(l[j])) => ItemKey(l[i]) # ItemKey(l[j])

Listings == { l \in ListsUpTo(MaxLen) : UniqueItems(l) }

ProtectedChoices == { <<>>, <<PXK, PY \o <<SEP>> >> }
TargetChoices == { <<>>, << <<"a", "/">>, PXK >> }
PatternChoices == { << <<"bx">> >>, << <<"bx">>, <<"by">> >> }
DateFields == {"created", "modified"}

\* The configurations of a run on a JSON file of records
JsonConfigs ==
    [protected_paths : ProtectedChoices,
     cleanup_target_paths : TargetChoices,
     build_folder_patterns : PatternChoices,
     delete_chunk_size : 1..MaxChunk,
     aql_limit : {1},
     credentials : {TRUE}]

\* The configurations of a run that fetches the records: the optional lists
\* are absent (config.get gives [] for the three of them), the URL and the
\* credentials are set or not.
AqlConfigs ==
    [protected_paths : {<<>>},
     cleanup_target_paths : {<<>>},
     build_folder_patterns : {<<>>},
     delete_chunk_size : {1},
     aql_limit : 1..MaxLimit,
     credentials : BOOLEAN]

----------------------------------------------------------------------------
(* State *)

VARIABLES
    pc,             \* position of main
    config,         \* the loaded YAML configuration
    args,           \* the parsed command line
    listing,        \* the items held by the server (the JSON file, with --json)
    repo_file,      \* "results" of the JSON file at repo_file_path
    start_pos,      \* run_aql_pagination: offset of the next request
    query_count,    \* run_aql_pagination: requests sent
    result_files,   \* run_aql_pagination: the pages saved in temp_dir
    requests,       \* the offsets of the requests sent, in order
    failed_at,      \* number of the request that failed, 0 if none
    repo_files,     \* "results" of the loaded repo_files
    target_idx,     \* process_cleanup_targets: index of the next target path
    manifests,      \* the file specs written, in order
    delete_calls,   \* the invocations of "jf rt del", in order
    folders,        \* main: the build folders, in insertion order
    to_delete,      \* main: the folders selected for deletion
    not_selected,   \* main: the folders retained
    spec_files,     \* main: the names of the build-folder file specs
    chunk_i,        \* main: start of the next chunk of to_delete
    spec_idx        \* main: index of the next spec file to delete with

vars == <<pc, config, args, listing, repo_file, start_pos, query_count,
          result_files, requests, failed_at, repo_files, target_idx,
          manifests,
          delete_calls, folders, to_delete, not_selected, spec_files,
          chunk_i, spec_idx>>

aqlVars == <<start_pos, query_count, result_files, requests, failed_at>>
cleanVars == <<repo_files, target_idx, manifests, delete_calls, folders,
               to_delete, not_selected, spec_files, chunk_i, spec_idx>>

InitRest ==
    /\ pc = "start"
    /\ start_pos = 0
    /\ query_count = 0
    /\ result_files = <<>>
    /\ requests = <<>>
    /\ failed_at = 0
    /\ repo_files = <<>>
    /\ target_idx = 1
    /\ manifests = <<>>
    /\ delete_calls = <<>>
    /\ folders = <<>>
    /\ to_delete = <<>>
    /\ not_selected = <<>>
    /\ spec_files = <<>>
    /\ chunk_i = 0
    /\ spec_idx = 1

\* A run with --json (or with neither option: DEFAULT_REPO_FILE)
InitJson ==
    /\ listing \in Listings
    /\ repo_file = listing
    /\ config \in JsonConfigs
    /\ args \in [source : {"json"}, dry_run : BOOLEAN, date_field : DateFields]
    /\ InitRest

\* A run with --repo_name
InitAql ==
    /\ listing \in Listings
    /\ repo_file = <<>>
    /\ config \in AqlConfigs
    /\ args \in [source : {"repo_name"}, dry_run : BOOLEAN,
                 date_field : {"created"}]
    /\ InitRest

Init == InitJson \/ InitAql

----------------------------------------------------------------------------
(* main: choice of the source of the records *)

\* main, lines 460-499: with --repo_name and no --json the records are
\* fetched, and the run exits when the URL or the credentials are missing.
Start ==
    /\ pc = "start"
    /\ pc' = IF args.source = "repo_name"
             THEN (IF config.credentials THEN "aql" ELSE "exit")
             ELSE "load"
    /\ UNCHANGED <<config, args, listing, repo_file, aqlVars, cleanVars>>

----------------------------------------------------------------------------
(* run_aql_pagination *)

\* The server: the answer to .offset(o).limit(l) is the records at positions
\* o .. min(o + l, N) - 1 and a range that gives the position of the first
\* and of the last record returned and the number of records held.
ServerResults(o, l) ==
    SubSeq(listing, o + 1, IF o + l < Len(listing) THEN o + l ELSE Len(listing))

ServerRange(o, l) ==
    [start_pos |-> o,
     end_pos |-> o + Len(ServerResults(o, l)) - 1,
     total |-> Len(listing)]

\* line 161
ReachedEnd(current_end, current_total) == (current_end + 1) >= current_total

\* Mutant: the next request starts at the last record of the page
NextStartPos_Stuck(current_end) == current_end

\* line 166
NextStartPos(current_end) == current_end + 1

\* Mutant: every page is saved in the same file
SavePage_Overwrite(files, results) == <<results>>

\* lines 146-150: the page is saved and its file is appended to result_files
SavePage(files, results) == Append(files, results)

\* lines 168-175: the pages are read back in order and concatenated
CombineResults(files) == Flatten(files)

\* One iteration of the loop whose request succeeds (lines 109-167)
AqlQuery ==
    /\ pc = "aql"
    /\ query_count' = query_count + 1
    /\ requests' = Append(requests, start_pos)
    /\ LET results == ServerResults(start_pos, config.aql_limit)
           range_info == ServerRange(start_pos, config.aql_limit)
       IN  IF results = <<>>
           THEN /\ pc' = "aql_combine"
                /\ UNCHANGED <<result_files, start_pos>>
           ELSE /\ result_files' = SavePage(result_files, results)
                /\ IF ReachedEnd(range_info.end_pos, range_info.total)
                   THEN /\ pc' = "aql_combine"
                        /\ UNCHANGED start_pos
                   ELSE /\ pc' = "aql"
                        /\ start_pos' = NextStartPos(range_info.end_pos)
    /\ UNCHANGED <<config, args, listing, repo_file, failed_at, cleanVars>>

\* Mutant: the loop goes on (retries) after a failed request
OnQueryFailure_Retry == "aql"

\* line 136: what the loop does when the request has failed
OnQueryFailure == "aql_combine"

\* One iteration whose request fails: session.post, raise_for_status or
\* response.json raises (lines 127-139)
AqlQueryFails ==
    /\ pc = "aql"
    /\ query_count' = query_count + 1
    /\ requests' = Append(requests, start_pos)
    /\ failed_at' = query_count + 1
    /\ pc' = OnQueryFailure
    /\ UNCHANGED <<config, args, listing, repo_file, result_files, start_pos,
                   cleanVars>>

\* After the loop (lines 168-183): the output file is written, the
\* temporary directory is removed
AqlCombine ==
    /\ pc = "aql_combine"
    /\ repo_file' = CombineResults(result_files)
    /\ result_files' = <<>>
    /\ pc' = "load"
    /\ UNCHANGED <<config, args, listing, start_pos, query_count, requests,
                   failed_at, cleanVars>>

----------------------------------------------------------------------------
(* main: load *)

\* lines 499-514
LoadRepoFiles ==
    /\ pc = "load"
    /\ repo_files' = repo_file
    /\ pc' = IF config.cleanup_target_paths # <<>> THEN "targets" ELSE "group"
    /\ UNCHANGED <<config, args, listing, repo_file, aqlVars, target_idx,
                   manifests, delete_calls, folders, to_delete, not_selected,
                   spec_files, chunk_i, spec_idx>>

----------------------------------------------------------------------------
(* Helpers of the cleanup *)

\* is_protected
is_protected(folder, protected_paths) ==
    \E i \in 1..Len(protected_paths) : StartsWith(folder, protected_paths[i])

\* match_build_folder_with_patterns
match_build_folder_with_patterns(folder, patterns) ==
    \E i \in 1..Len(patterns) : Contains(folder, patterns[i])

\* entry.get(date_field, entry.get("created")), parsed with DATE_FORMAT
GetDate(entry, date_field) ==
    IF date_field \in DOMAIN entry THEN entry[date_field] ELSE entry.created

\* get_build_folder.  The regex (.*?/)?(build_[^/]+_\d+_\d+)(/.*)?$ is
\* searched from the left: group 2 is a build text that ends at the end of the
\* path or before a "/"; the first one that follows a "/" is taken, and when
\* there is none, the leftmost one.  The folder is the path up to the end of
\* the first occurrence of the text of group 2 (path.find).  <<>> is None.
get_build_folder(path) ==
    LET cands == { i \in 1..Len(path) :
                     /\ path[i] \in BuildTokens
                     /\ (i = Len(path) \/ path[i + 1] = SEP) }
        afterSep == { i \in cands : i > 1 /\ path[i - 1] = SEP }
        m == IF afterSep # {} THEN Min(afterSep) ELSE Min(cands)
        found == Min({ i \in 1..Len(path) : path[i] = path[m] })
    IN  IF cands = {} THEN <<>> ELSE SubSeq(path, 1, found)

\* delete_folders_with_spec, lines 315-321: the invocation that is made
\* (None for a missing file spec is <<>>: no invocation)
delete_folders_with_spec(calls, file_spec_filename, dry_run, outcome) ==
    IF file_spec_filename = <<>> THEN calls
    ELSE Append(calls, [spec |-> file_spec_filename[1], dry_run |-> dry_run,
                        outcome |-> outcome])

\* What "jf rt del" can do: end with status 0, end with an error status, or
\* fail to run (subprocess.run raises)
Outcomes == {"ok", "error", "raised"}

\* Mutant: an exception of subprocess.run is not caught
AfterDelete_Abort(outcome, next) ==
    IF outcome = "raised" THEN "aborted" ELSE next

\* delete_folders_with_spec, lines 322-330: the exit status is not looked at
\* and an exception is caught, so the caller goes on at next
AfterDelete(outcome, next) == next

----------------------------------------------------------------------------
(* process_cleanup_targets *)

\* line 248
TargetIsProtected(target_path, protected_paths) ==
    \E i \in 1..Len(protected_paths) : protected_paths[i] = target_path

\* Mutant: a file dated exactly threshold_date is eligible
OlderThanThreshold_OrEqual(created, threshold_date) ==
    created <= threshold_date

\* line 261
OlderThanThreshold(created, threshold_date) == created < threshold_date

\* lines 253-262: the entry is appended to eligible_files
Eligible(entry, target_path, threshold_date, date_field) ==
    /\ IsDict(entry)
    /\ entry.type = "file"
    /\ StartsWith(entry.path, target_path)
    /\ OlderThanThreshold(GetDate(entry, date_field), threshold_date)

RECURSIVE EligibleFiles(_, _, _, _)
EligibleFiles(entries, target_path, threshold_date, date_field) ==
    IF entries = <<>> THEN <<>>
    ELSE LET rest == EligibleFiles(Tail(entries), target_path, threshold_date,
                                   date_field)
         IN  IF Eligible(Head(entries), target_path, threshold_date,
                         date_field)
             THEN <<Head(entries)>> \o rest
             ELSE rest

\* Mutant: the repository is left out of the pattern
TargetPattern_NoRepo(f) == Join2(f.path, f.name)

\* line 268
TargetPattern(f) == Join3(f.repo, f.path, f.name)

\* lines 272-275: fileSpec_<now>/filespec_<target with _ for />_<now>.json
TargetSpecName(target_path) ==
    [dir |-> "fileSpec", target |-> ReplaceSep(target_path), number |-> 0]

\* Mutant: the file spec of a target is deleted with in a dry run too
TargetDeletes_Always(dry_run) == TRUE

\* line 280
TargetDeletes(dry_run) == ~dry_run

\* The position after the target at index idx is done
AfterTarget(idx) ==
    IF idx + 1 > Len(config.cleanup_target_paths) THEN "group" ELSE "targets"

\* One iteration of the loop over cleanup_target_paths (lines 244-281), up to
\* the call of delete_folders_with_spec
ProcessTarget ==
    /\ pc = "targets"
    /\ LET target_path == config.cleanup_target_paths[target_idx]
           eligible_files == EligibleFiles(repo_files, target_path,
                                           ThresholdDate, args.date_field)
       IN  IF TargetIsProtected(target_path, config.protected_paths)
           THEN /\ target_idx' = target_idx + 1
                /\ pc' = AfterTarget(target_idx)
                /\ UNCHANGED manifests
           ELSE IF eligible_files = <<>>
           THEN /\ target_idx' = target_idx + 1
                /\ pc' = AfterTarget(target_idx)
                /\ UNCHANGED manifests
           ELSE /\ manifests' = Append(manifests,
                      [name |-> TargetSpecName(target_path),
                       patterns |-> [i \in 1..Len(eligible_files) |->
                                        TargetPattern(eligible_files[i])]])
                /\ IF TargetDeletes(args.dry_run)
                   THEN /\ pc' = "target_delete"
                        /\ UNCHANGED target_idx
                   ELSE /\ target_idx' = target_idx + 1
                        /\ pc' = AfterTarget(target_idx)
    /\ UNCHANGED <<config, args, listing, repo_file, aqlVars, repo_files,
                   delete_calls, folders, to_delete, not_selected, spec_files,
                   chunk_i, spec_idx>>

\* line 281: delete_folders_with_spec for the file spec just written
DeleteTargetSpec ==
    /\ pc = "target_delete"
    /\ \E outcome \in Outcomes :
          /\ delete_calls' = delete_folders_with_spec(delete_calls,
                                 <<manifests[Len(manifests)].name>>, FALSE,
                                 outcome)
          /\ pc' = AfterDelete(outcome, AfterTarget(target_idx))
    /\ target_idx' = target_idx + 1
    /\ UNCHANGED <<config, args, listing, repo_file, aqlVars, repo_files,
                   manifests, folders, to_delete, not_selected, spec_files,
                   chunk_i, spec_idx>>

----------------------------------------------------------------------------
(* main: grouping of the records by build folder *)

\* lines 520-524: the entry is put in a folder
Grouped(entry) ==
    entry.type = "file" /\ get_build_folder(entry.path) # <<>>

\* line 525
WithFullFileName(entry) ==
    entry @@ [full_file_name |-> Join2(entry.path, entry.name)]

\* line 526 on the defaultdict, which keeps the order of first insertion
AddToFolder(fs, build_folder, entry) ==
    IF \E i \in 1..Len(fs) : fs[i].folder = build_folder
    THEN [i \in 1..Len(fs) |->
            IF fs[i].folder = build_folder
            THEN [fs[i] EXCEPT !.files = Append(@, entry)]
            ELSE fs[i]]
    ELSE Append(fs, [folder |-> build_folder, files |-> <<entry>>])

\* The folders after the first n entries have been looked at
RECURSIVE GroupEntries(_, _)
GroupEntries(entries, n) ==
    IF n = 0 THEN <<>>
    ELSE LET fs == GroupEntries(entries, n - 1)
             entry == entries[n]
         IN  IF Grouped(entry)
             THEN AddToFolder(fs, get_build_folder(entry.path),
                              WithFullFileName(entry))
             ELSE fs

\* Number of entries the loop of lines 519-526 gets through: entry.get raises
\* AttributeError at the first entry that is not a dict
EntriesHandled(entries) ==
    LET bad == { i \in 1..Len(entries) : ~IsDict(entries[i]) }
    IN  IF bad = {} THEN Len(entries) ELSE Min(bad) - 1

\* The loop of lines 517-526; the entries grouped are the dicts of repo_files,
\* which get the key full_file_name
GroupFiles ==
    /\ pc = "group"
    /\ LET n == EntriesHandled(repo_files)
       IN  /\ folders' = GroupEntries(repo_files, n)
           /\ repo_files' = [i \in 1..Len(repo_files) |->
                               IF i <= n /\ Grouped(repo_files[i])
                               THEN WithFullFileName(repo_files[i])
                               ELSE repo_files[i]]
           /\ pc' = IF n < Len(repo_files) THEN "aborted" ELSE "classify"
    /\ UNCHANGED <<config, args, listing, repo_file, aqlVars, target_idx,
                   manifests, delete_calls, to_delete, not_selected,
                   spec_files, chunk_i, spec_idx>>

----------------------------------------------------------------------------
(* main: classification of the build folders *)

\* lines 537-540: the folder is looked at
Considered(folder, protected_paths, patterns) ==
    /\ ~is_protected(folder \o <<SEP>>, protected_paths)
    /\ match_build_folder_with_patterns(folder, patterns)

\* line 563
NewerThanThreshold(created, threshold_date) == created > threshold_date

\* lines 552-564
AllOlder(files, threshold_date, date_field) ==
    \A i \in 1..Len(files) :
        ~NewerThanThreshold(GetDate(files[i], date_field), threshold_date)

\* lines 542-543
FolderName(folder, files) == Join2(files[1].repo, folder)

\* lines 547-586: folder_info (the sizes and the names of the oldest and of
\* the newest file are left out)
FolderInfo(folder, files, threshold_date, date_field) ==
    LET dates == { GetDate(files[i], date_field) : i \in 1..Len(files) }
    IN  [folder |-> FolderName(folder, files),
         file_count |-> Len(files),
         oldest |-> Min(dates),
         newest |-> CHOOSE d \in dates : \A e \in dates : e <= d,
         reason |-> IF AllOlder(files, threshold_date, date_field)
                    THEN "All files older" ELSE "Some files are newer"]

\* The folder_info of the folders looked at among the first n, in order
RECURSIVE FolderInfos(_, _)
FolderInfos(fs, n) ==
    IF n = 0 THEN <<>>
    ELSE LET fd == fs[n]
         IN  IF Considered(fd.folder, config.protected_paths,
                           config.build_folder_patterns)
             THEN Append(FolderInfos(fs, n - 1),
                         FolderInfo(fd.folder, fd.files, ThresholdDate,
                                    args.date_field))
             ELSE FolderInfos(fs, n - 1)

RECURSIVE WithReason(_, _)
WithReason(infos, reason) ==
    IF infos = <<>> THEN <<>>
    ELSE IF Head(infos).reason = reason
         THEN <<Head(infos)>> \o WithReason(Tail(infos), reason)
         ELSE WithReason(Tail(infos), reason)

\* The loop of lines 536-586 and the test of line 591
ClassifyFolders ==
    /\ pc = "classify"
    /\ LET infos == FolderInfos(folders, Len(folders))
       IN  /\ to_delete' = WithReason(infos, "All files older")
           /\ not_selected' = WithReason(infos, "Some files are newer")
    /\ pc' = IF to_delete' # <<>> THEN "write" ELSE "done"
    /\ UNCHANGED <<config, args, listing, repo_file, aqlVars, repo_files,
                   target_idx, manifests, delete_calls, folders, spec_files,
                   chunk_i, spec_idx>>

----------------------------------------------------------------------------
(* main: the file specs of the folders to delete, and their deletion *)

\* Mutant: the slice is to_delete[i : i + chunk_size - 1]
Chunk_OffByOne(i, chunk_size) ==
    SubSeq(to_delete, i + 1,
           IF i + chunk_size - 1 < Len(to_delete) THEN i + chunk_size - 1
           ELSE Len(to_delete))

\* line 607: to_delete[i : i + chunk_size]
Chunk(i, chunk_size) ==
    SubSeq(to_delete, i + 1,
           IF i + chunk_size < Len(to_delete) THEN i + chunk_size
           ELSE Len(to_delete))

\* lines 608-610
BuildSpecName(i, chunk_size) ==
    [dir |-> "spec_files", target |-> <<>>, number |-> (i \div chunk_size) + 1]

\* write_file_spec, line 299
FolderPattern(f) == f.folder \o <<SEP, "**">>

\* write_file_spec: the file spec written, as a list of at most one element
\* (nothing is written for an empty list of folders)
write_file_spec(chunk, file_spec_filename) ==
    IF chunk = <<>> THEN <<>>
    ELSE << [name |-> file_spec_filename,
             patterns |-> [k \in 1..Len(chunk) |-> FolderPattern(chunk[k])]] >>

\* line 618
MainDeletes(dry_run) == ~dry_run

\* Mutant: the deletion loop of lines 618-624 is inside the loop over the
\* chunks, so the spec files written so far are deleted with after each chunk
WriteSpec_DeleteInLoop ==
    /\ pc = "write"
    /\ LET chunk_size == config.delete_chunk_size
           written == write_file_spec(Chunk(chunk_i, chunk_size),
                                      BuildSpecName(chunk_i, chunk_size))
           files == spec_files \o [k \in 1..Len(written) |-> written[k].name]
       IN  /\ manifests' = manifests \o written
           /\ spec_files' = files
           /\ chunk_i' = chunk_i + chunk_size
           /\ delete_calls' =
                 IF MainDeletes(args.dry_run)
                 THEN delete_calls \o
                          [k \in 1..Len(files) |->
                              [spec |-> files[k], dry_run |-> FALSE,
                               outcome |-> "ok"]]
                 ELSE delete_calls
           /\ pc' = IF chunk_i + chunk_size < Len(to_delete) THEN "write"
                    ELSE "done"
    /\ UNCHANGED <<config, args, listing, repo_file, aqlVars, repo_files,
                   target_idx, folders, to_delete, not_selected, spec_idx>>

\* One iteration of the loop of lines 606-615
WriteSpec ==
    /\ pc = "write"
    /\ LET chunk_size == config.delete_chunk_size
           written == write_file_spec(Chunk(chunk_i, chunk_size),
                                      BuildSpecName(chunk_i, chunk_size))
       IN  /\ manifests' = manifests \o written
           /\ spec_files' = spec_files \o [k \in 1..Len(written) |->
                                              written[k].name]
           /\ chunk_i' = chunk_i + chunk_size
           /\ pc' = IF chunk_i + chunk_size < Len(to_delete) THEN "write"
                    ELSE IF MainDeletes(args.dry_run) /\ spec_files' # <<>>
                    THEN "delete"
                    ELSE "done"
    /\ UNCHANGED <<config, args, listing, repo_file, aqlVars, repo_files,
                   target_idx, delete_calls, folders, to_delete, not_selected,
                   spec_idx>>

\* The position after the spec file at index idx is done
AfterSpec(idx) == IF idx + 1 > Len(spec_files) THEN "done" ELSE "delete"

\* One iteration of the loop of lines 619-624
DeleteSpec ==
    /\ pc = "delete"
    /\ \E outcome \in Outcomes :
          /\ delete_calls' = delete_folders_with_spec(delete_calls,
                                 <<spec_files[spec_idx]>>, FALSE, outcome)
          /\ pc' = AfterDelete(outcome, AfterSpec(spec_idx))
    /\ spec_idx' = spec_idx + 1
    /\ UNCHANGED <<config, args, listing, repo_file, aqlVars, repo_files,
                   target_idx, manifests, folders, to_delete, not_selected,
                   spec_files, chunk_i>>

----------------------------------------------------------------------------

Next ==
    \/ Start
    \/ AqlQuery
    \/ AqlQueryFails
    \/ AqlCombine
    \/ LoadRepoFiles
    \/ ProcessTarget
    \/ DeleteTargetSpec
    \/ GroupFiles
    \/ ClassifyFolders
    \/ WriteSpec
    \/ DeleteSpec

Spec == Init /\ [][Next]_vars

----------------------------------------------------------------------------
(* Notions the properties are stated with *)

GLOB == <<SEP, "**">>

\* The records of the JSON file that are files
FileRecords ==
    { repo_file[i] : i \in { j \in 1..Len(repo_file) :
                               IsDict(repo_file[j])
                               /\ repo_file[j].type = "file" } }

\* <repo>/<path>/<name>
FullName(e) == e.repo \o <<SEP>> \o e.path \o <<SEP>> \o e.name

\* What "jf rt del" deletes for a pattern: everything below the folder for
\* <folder>/**, the item of that name otherwise
Covers(pattern, e) ==
    IF EndsWith(pattern, GLOB)
    THEN StartsWith(FullName(e),
                    SubSeq(pattern, 1, Len(pattern) - 2) \o <<SEP>>)
    ELSE pattern = FullName(e)

AllPatterns ==
    UNION { { manifests[i].patterns[k] : k \in 1..Len(manifests[i].patterns) }
            : i \in 1..Len(manifests) }

CustomManifests ==
    { i \in 1..Len(manifests) : manifests[i].name.dir = "fileSpec" }
BuildManifests ==
    { i \in 1..Len(manifests) : manifests[i].name.dir = "spec_files" }

Classified == pc \in {"write", "delete", "done"}

InList(infos, name) == \E k \in 1..Len(infos) : infos[k].folder = name

----------------------------------------------------------------------------
(* C1 *)

\* C1: once the build folders are classified, every folder that is neither
\* protected nor rejected by build_folder_patterns is in exactly one of
\* to_delete and not_selected, and it is in to_delete if and only if every
\* file grouped under it has its selected date older than the threshold date.
C1_FullyStaleIffAllOlder ==
    Classified =>
        \A n \in 1..Len(folders) :
            LET fd == folders[n]
                name == fd.files[1].repo \o <<SEP>> \o fd.folder
                allOlder == \A i \in 1..Len(fd.files) :
                               GetDate(fd.files[i], args.date_field)
                                   < ThresholdDate
            IN  Considered(fd.folder, config.protected_paths,
                           config.build_folder_patterns)
                => /\ InList(to_delete, name) # InList(not_selected, name)
                   /\ InList(to_delete, name) <=> allOlder

----------------------------------------------------------------------------
(* C2 *)

\* C2: no pattern of a manifest covers a file whose path starts with one of
\* the protected paths.
C2_ProtectedNeverInManifest ==
    \A p \in AllPatterns : \A e \in FileRecords :
        Covers(p, e) =>
            ~\E i \in 1..Len(config.protected_paths) :
                StartsWith(e.path, config.protected_paths[i])

----------------------------------------------------------------------------
(* C3 *)

\* C3: in a run with dry_run true "jf rt del" is never invoked.
C3_DryRunNeverDeletes == args.dry_run => delete_calls = <<>>

\* A dry run that has written a custom-path and a build-folder manifest
C3_Witness ==
    /\ args.dry_run
    /\ pc = "done"
    /\ CustomManifests # {}
    /\ BuildManifests # {}

----------------------------------------------------------------------------
(* C4 *)

\* The fetch is over: the output file of run_aql_pagination is written
Fetched ==
    /\ args.source = "repo_name"
    /\ pc \notin {"start", "exit", "aql", "aql_combine"}

\* The request number i ends the loop: it fails, its page is empty, or its
\* page has end_pos + 1 >= total
StopsAt(i) ==
    \/ failed_at = i
    \/ ServerResults(requests[i], config.aql_limit) = <<>>
    \/ ServerRange(requests[i], config.aql_limit).end_pos + 1
           >= ServerRange(requests[i], config.aql_limit).total

\* C4: run_aql_pagination sends at most max(1, ceil(N / limit)) requests, the
\* offsets of the requests strictly increase, no request follows the first
\* one that fails, has an empty page or has end_pos + 1 >= total, and the
\* loop is left only at such a request.
C4_PaginationTerminates ==
    LET N == Len(listing)
        L == config.aql_limit
        n == Len(requests)
    IN  /\ n = query_count
        /\ n <= (IF N = 0 THEN 1 ELSE (N + L - 1) \div L)
        /\ \A i \in 1..(n - 1) : requests[i] < requests[i + 1]
        /\ \A i \in 1..(n - 1) : ~StopsAt(i)
        /\ (pc = "aql" /\ n > 0) => ~StopsAt(n)
        /\ (pc = "aql_combine" \/ Fetched) => (n > 0 /\ StopsAt(n))

\* The loop has ended without a failure after more than one request
C4_Witness ==
    /\ pc = "aql_combine"
    /\ failed_at = 0
    /\ Len(requests) >= 2
    /\ Len(listing) > config.aql_limit

----------------------------------------------------------------------------
(* C5 *)

\* C5: when no request has failed, the output file of run_aql_pagination
\* holds the records of the server, each once, in the order of the server.
C5_AllRecordsOnce == (Fetched /\ failed_at = 0) => repo_file = listing

\* A listing of three records fetched in more than one page
C5_Witness ==
    /\ Fetched
    /\ failed_at = 0
    /\ Len(listing) >= 3
    /\ Len(requests) >= 2

----------------------------------------------------------------------------
(* C6 *)

\* C6: a failed request is the last request (there is no retry), no offset is
\* requested twice, and the output file then holds the pages of the requests
\* before the failed one, in order.
C6_FailureAbortsFetch ==
    /\ failed_at # 0 =>
          /\ pc # "aql"
          /\ Len(requests) = failed_at
          /\ query_count = failed_at
    /\ \A i, j \in 1..Len(requests) : i < j => requests[i] # requests[j]
    /\ (Fetched /\ failed_at # 0) =>
          repo_file = Flatten([i \in 1..(failed_at - 1) |->
                                 ServerResults(requests[i], config.aql_limit)])

\* The second or a later request has failed and the output is written
C6_Witness ==
    /\ Fetched
    /\ failed_at >= 2
    /\ repo_file # <<>>
    /\ repo_file # listing

----------------------------------------------------------------------------
(* C7 *)

RECURSIVE WellFormed(_)
WellFormed(entries) ==
    IF entries = <<>> THEN <<>>
    ELSE IF IsDict(Head(entries))
         THEN <<Head(entries)>> \o WellFormed(Tail(entries))
         ELSE WellFormed(Tail(entries))

\* The two lists that the grouping and the classification give for a list of
\* records
ClassificationOf(entries) ==
    LET fs == GroupEntries(entries, Len(entries))
        infos == FolderInfos(fs, Len(fs))
    IN  << WithReason(infos, "All files older"),
           WithReason(infos, "Some files are newer") >>

\* C7: an entry that is not a dict does not abort the run, and the build
\* folders are classified as they are for the list without such entries.
C7_MalformedSkipped ==
    /\ pc # "aborted"
    /\ Classified =>
          <<to_delete, not_selected>> = ClassificationOf(WellFormed(repo_file))

----------------------------------------------------------------------------
(* C8 *)

CalledSpecs == [i \in 1..Len(delete_calls) |-> delete_calls[i].spec]
ManifestNames == [i \in 1..Len(manifests) |-> manifests[i].name]

\* Each manifest written has been deleted with exactly once so far, in the
\* order of the manifests (in the loop of main: the custom-path manifests and
\* the build-folder manifests before spec_idx)
EachManifestDeletedOnce ==
    /\ (~args.dry_run
        /\ pc \in {"targets", "group", "classify", "aborted", "done"})
          => CalledSpecs = ManifestNames
    /\ pc = "delete" =>
          CalledSpecs = SubSeq(ManifestNames, 1,
                               Len(manifests) - Len(spec_files) + spec_idx - 1)

\* An invocation of "jf rt del" is followed by the next step of the run
\* whatever its outcome is: the next target path or the grouping after a
\* custom-path manifest, the next spec file or the normal end of the run
\* after a build-folder manifest
RunGoesOnAfterDelete ==
    /\ pc = "target_delete" =>
          /\ pc' = (IF target_idx = Len(config.cleanup_target_paths)
                    THEN "group" ELSE "targets")
          /\ Len(delete_calls') = Len(delete_calls) + 1
    /\ pc = "delete" =>
          /\ pc' = (IF spec_idx = Len(spec_files) THEN "done" ELSE "delete")
          /\ Len(delete_calls') = Len(delete_calls) + 1

\* C8: in a run with dry_run false, whatever the outcomes of the invocations
\* of "jf rt del" (status 0, error status, exception), each manifest written
\* is deleted with exactly once, in the order of the manifests, and a failed
\* invocation does not stop the run.
C8_DeleteFailureCaught ==
    []EachManifestDeletedOnce /\ [][RunGoesOnAfterDelete]_vars

\* A run that has ended after a first invocation that raised and a later
\* one that ended with an error status
C8_Witness ==
    /\ pc = "done"
    /\ Len(delete_calls) >= 3
    /\ delete_calls[1].outcome = "raised"
    /\ delete_calls[2].outcome = "error"
    /\ BuildManifests # {}

----------------------------------------------------------------------------
(* C9 *)

\* C9: every pattern of every manifest ends with /** and starts with the
\* repository of a record.
C9_EveryPatternIsFolderGlob ==
    \A p \in AllPatterns :
        /\ EndsWith(p, GLOB)
        /\ \E e \in FileRecords : StartsWith(p, e.repo \o <<SEP>>)

\* C9, amended: a pattern of a build-folder manifest is <repo>/<folder>/**
\* for a build folder and the repository of the first record grouped under
\* it; a pattern of a custom-path manifest is <repo>/<path>/<name> of a file
\* record and does not end with /**.
C9_PatternForms ==
    /\ \A i \in BuildManifests : \A k \in 1..Len(manifests[i].patterns) :
          \E n \in 1..Len(folders) :
              manifests[i].patterns[k] =
                  folders[n].files[1].repo \o <<SEP>> \o folders[n].folder
                      \o GLOB
    /\ \A i \in CustomManifests : \A k \in 1..Len(manifests[i].patterns) :
          /\ ~EndsWith(manifests[i].patterns[k], GLOB)
          /\ \E e \in FileRecords : manifests[i].patterns[k] = FullName(e)

\* A run that has written a build-folder manifest and a custom-path manifest
\* of two patterns
C9_Witness ==
    /\ \E i \in BuildManifests : Len(manifests[i].patterns) >= 1
    /\ \E i \in CustomManifests : Len(manifests[i].patterns) >= 2

----------------------------------------------------------------------------
(* C10 *)

\* The record is one the claim selects for the target path
Selected(e, target_path) ==
    /\ IsDict(e)
    /\ e.type = "file"
    /\ StartsWith(e.path, target_path)
    /\ GetDate(e, args.date_field) < ThresholdDate

TargetsDone ==
    pc \in {"group", "classify", "write", "delete", "done", "aborted"}

\* C10: the manifest of a target path that is not protected names exactly
\* the file records below the target path whose selected date is earlier
\* than the threshold date; the target has a manifest if and only if there
\* is such a record; the records are unchanged when the grouping starts, and
\* the build folders are classified as the records of the file are without
\* cleanup_target_paths.
C10_CustomPathSelection ==
    LET targets == config.cleanup_target_paths
        unprotected == { k \in 1..Len(targets) :
                           \A j \in 1..Len(config.protected_paths) :
                               config.protected_paths[j] # targets[k] }
        named(e, i) == \E q \in 1..Len(manifests[i].patterns) :
                          manifests[i].patterns[q] = FullName(e)
        selects(k) == \E j \in 1..Len(repo_file) :
                         Selected(repo_file[j], targets[k])
    IN  /\ \A i \in CustomManifests :
              \E k \in unprotected :
                  /\ manifests[i].name.target = ReplaceSep(targets[k])
                  /\ \A j \in 1..Len(repo_file) :
                        IsDict(repo_file[j]) =>
                            (named(repo_file[j], i)
                                <=> Selected(repo_file[j], targets[k]))
        /\ TargetsDone =>
              \A k \in unprotected :
                  selects(k) <=>
                      \E i \in CustomManifests :
                          manifests[i].name.target = ReplaceSep(targets[k])
        /\ pc = "group" => repo_files = repo_file
        /\ Classified =>
              <<to_delete, not_selected>> = ClassificationOf(repo_file)

\* The manifest of a target is written while the list holds a record below
\* the first target path that is dated exactly the threshold date
C10_Witness ==
    /\ pc = "group"
    /\ CustomManifests # {}
    /\ \E j \in 1..Len(repo_file) :
          /\ IsDict(repo_file[j])
          /\ StartsWith(repo_file[j].path, config.cleanup_target_paths[1])
          /\ GetDate(repo_file[j], args.date_field) = ThresholdDate

----------------------------------------------------------------------------
(* C11 *)

\* Every invocation of "jf rt del" so far names a manifest that is written:
\* the invocations follow the manifests in the order of writing, and the
\* manifest named holds its patterns
DeleteNamesWrittenManifest ==
    \A i \in 1..Len(delete_calls) :
        /\ i <= Len(manifests)
        /\ manifests[i].name = delete_calls[i].spec
        /\ manifests[i].patterns # <<>>

\* The step neither classifies records nor writes a manifest: the run is not
\* at a target path, at the grouping, at the classification or at a chunk,
\* and the manifests, the folders and the two lists stay as they are
NoClassifyNoWrite ==
    /\ pc \notin {"targets", "group", "classify", "write"}
    /\ manifests' = manifests
    /\ folders' = folders
    /\ to_delete' = to_delete
    /\ not_selected' = not_selected

\* C11: every invocation of "jf rt del" names a manifest already written,
\* and once "jf rt del" has been invoked, no step classifies records or
\* writes a manifest.
C11_DeleteAfterAllWrites ==
    /\ []DeleteNamesWrittenManifest
    /\ [][delete_calls # <<>> => NoClassifyNoWrite]_vars

BuildDeleteStarted ==
    \E i \in 1..Len(delete_calls) : delete_calls[i].spec.dir = "spec_files"

\* C11, amended: every invocation of "jf rt del" names a manifest already
\* written, and once "jf rt del" has been invoked for a build-folder
\* manifest, no step classifies records or writes a manifest.
C11_BuildDeleteAfterAllWrites ==
    /\ []DeleteNamesWrittenManifest
    /\ [][BuildDeleteStarted => NoClassifyNoWrite]_vars

\* A run that has deleted with a custom-path manifest and then with two
\* build-folder manifests
C11_Witness ==
    /\ pc = "done"
    /\ Len(delete_calls) >= 3
    /\ delete_calls[1].spec.dir = "fileSpec"
    /\ delete_calls[Len(delete_calls) - 1].spec.dir = "spec_files"
    /\ delete_calls[Len(delete_calls)].spec.dir = "spec_files"

----------------------------------------------------------------------------
(* C12 *)

\* The loop over the chunks of a list of folders to delete has ended
ChunksWritten == pc \in {"delete", "done"} /\ to_delete # <<>>

\* The build-folder manifests whose file name has the number j
NumberedManifests(j) == { i \in BuildManifests : manifests[i].name.number = j }

\* C12: for a deletion list of n folders and delete_chunk_size c, the
\* build-folder manifests written are numbered 1 .. ceil(n / c), one manifest
\* for each number, each holds between 1 and c patterns, every folder of the
\* deletion list has its pattern at exactly one place of one manifest, and
\* the patterns of the manifests read in the order of the numbers are the
\* folders in the order of the deletion list.
C12_ChunkingLosesNothing ==
    ChunksWritten =>
        LET n == Len(to_delete)
            c == config.delete_chunk_size
            count == (n + c - 1) \div c
            places(f) == { <<i, k>> \in BuildManifests \X (1..n) :
                             /\ k <= Len(manifests[i].patterns)
                             /\ manifests[i].patterns[k] = f.folder \o GLOB }
        IN  /\ Cardinality(BuildManifests) = count
            /\ \A j \in 1..count : Cardinality(NumberedManifests(j)) = 1
            /\ \A i \in BuildManifests :
                  /\ Len(manifests[i].patterns) >= 1
                  /\ Len(manifests[i].patterns) <= c
            /\ \A m \in 1..n : Cardinality(places(to_delete[m])) = 1
            /\ (\A j \in 1..count : NumberedManifests(j) # {}) =>
                  Flatten([j \in 1..count |->
                             manifests[CHOOSE i \in NumberedManifests(j) : TRUE]
                                 .patterns])
                      = [m \in 1..n |-> to_delete[m].folder \o GLOB]

\* Three folders to delete written in chunks of two: a manifest of two
\* patterns and a manifest of one
C12_Witness ==
    /\ ChunksWritten
    /\ Len(to_delete) = 3
    /\ config.delete_chunk_size = 2
    /\ Cardinality(BuildManifests) = 2

====
